---- MODULE Spec2Model ----
(***************************************************************************)
(* The yatube REST API (yatube_api/api/serializers.py, views.py): the      *)
(* Follow, Post and Comment view sets and their serializers, as a state    *)
(* machine over the persistent store.  One action models one HTTP request  *)
(* from dispatch to response.                                              *)
(***************************************************************************)
EXTENDS Integers, Sequences, FiniteSets, TLC

VARIABLES
    follows,        \* Follow table: id -> [user, following]
    nextFollowId,   \* auto-increment key of the Follow table
    posts,          \* Post table: id -> [author, text]
    nextPostId,     \* auto-increment key of the Post table
    comments,       \* Comment table: id -> [author, post, text]
    nextCommentId,  \* auto-increment key of the Comment table
    pending,        \* per worker: the create request validated and not yet saved
    last            \* the request handled by the last step and its response

vars == <<follows, nextFollowId, posts, nextPostId, comments, nextCommentId,
          pending, last>>

followVars == <<follows, nextFollowId>>
contentVars == <<posts, nextPostId, comments, nextCommentId>>

----------------------------------------------------------------------------
(* Bounds *)

NumUsers == 3
MaxFollows == 2
MaxPosts == 2
MaxComments == 1

----------------------------------------------------------------------------
(* Users *)

\* The username of the i-th registered user: "b", "Ab", "AAb", ...
Username(i) == [k \in 1..i |-> IF k = i THEN "b" ELSE "A"]

User(i) == [id |-> i, username |-> Username(i)]

\* The User table.  No endpoint of this API creates or deletes a user, so
\* the table is the same in every state.
Users == {User(i) : i \in 1..NumUsers}

\* request.user of a request without credentials
AnonymousUser == [id |-> 0, username |-> <<>>]

Actors == Users \cup {AnonymousUser}

is_authenticated(user) == user \in Users

\* A username on the wire that matches no user
UnknownName == <<"z">>

Usernames == {u.username : u \in Users}

WireNames == Usernames \cup {UnknownName}

\* SlugRelatedField(queryset=User.objects.all(), slug_field="username")
\* to_internal_value: the users the slug selects (none: does_not_exist)
SlugToUsers(name) == {u \in Users : u.username = name}

SlugToUser(name) == CHOOSE u \in Users : u.username = name

\* SlugRelatedField.to_representation
UserToSlug(user) == user.username

----------------------------------------------------------------------------
(* Requests and responses *)

NoBody == <<>>

\* The JSON objects a Follow request may carry: any subset of the fields
FollowBodies == UNION {[S -> WireNames] : S \in SUBSET {"user", "following"}}

Request(op, actor, pk, body, status) ==
    [op |-> op, actor |-> actor, post_id |-> 0, pk |-> pk, body |-> body,
     search |-> <<>>, status |-> status, data |-> {}]

\* A request under /posts/{post_id}/comments/
NestedRequest(op, actor, post_id, pk, body, status) ==
    [Request(op, actor, pk, body, status) EXCEPT !.post_id = post_id]

NoRequest == Request("none", AnonymousUser, 0, NoBody, "none")

\* No response is outstanding: the next request can be dispatched
Ready == last = NoRequest

----------------------------------------------------------------------------
(* Follow model *)

FollowRow(user, following) == [user |-> user, following |-> following]

FollowIds == DOMAIN follows

\* A Follow table without the uniqueness constraint
FollowIntegrityErrorNever(rows, pk, row) == FALSE

\* The (user, following) uniqueness constraint of the Follow table: whether
\* writing `row` under key `pk` would violate it
FollowIntegrityError(rows, pk, row) ==
    \E e \in DOMAIN rows : e # pk /\ rows[e] = row

\* user.followers: the Follow rows whose user is `user`
followers(rows, user) == {e \in DOMAIN rows : rows[e].user = user}

----------------------------------------------------------------------------
(* FollowSerializer *)

\* A validate_following that accepts every value
validate_following_always(value, request_user) == TRUE

\* FollowSerializer.validate_following: TRUE when the value is accepted
validate_following(value, request_user) == value # request_user

\* Field `user`: [given, error, value]
FollowUserField(data, request_user, partial) ==
    IF "user" \in DOMAIN data
    THEN IF SlugToUsers(data["user"]) = {}
         THEN [given |-> TRUE, error |-> TRUE, value |-> AnonymousUser]
         ELSE [given |-> TRUE, error |-> FALSE, value |-> SlugToUser(data["user"])]
    ELSE IF partial
         THEN [given |-> FALSE, error |-> FALSE, value |-> AnonymousUser]
         ELSE [given |-> TRUE, error |-> FALSE, value |-> request_user]

\* Field `following`: required, then validate_following
FollowFollowingField(data, request_user, partial) ==
    IF "following" \in DOMAIN data
    THEN IF SlugToUsers(data["following"]) = {}
         THEN [given |-> TRUE, error |-> TRUE, value |-> AnonymousUser]
         ELSE LET value == SlugToUser(data["following"])
              IN  [given |-> TRUE,
                   error |-> ~validate_following(value, request_user),
                   value |-> value]
    ELSE IF partial
         THEN [given |-> FALSE, error |-> FALSE, value |-> AnonymousUser]
         ELSE [given |-> TRUE, error |-> TRUE, value |-> AnonymousUser]

\* UniqueTogetherValidator(queryset=Follow.objects.all(),
\* fields=["user", "following"]): TRUE when it raises.  It compares the
\* validated `user`, which is the body's when the body names one.  On an
\* update the fields the request leaves out are read from the instance, and
\* the instance itself is excluded from the queryset.
UniqueTogetherValidator(rows, instance, user, following) ==
    \E e \in DOMAIN rows :
        /\ e # instance
        /\ rows[e].user = user
        /\ rows[e].following = following

\* serializer.is_valid(): the field errors first, the class validators only
\* when no field failed.  instance = 0 on create.
FollowIsValid(rows, instance, data, request_user, partial) ==
    LET u == FollowUserField(data, request_user, partial)
        f == FollowFollowingField(data, request_user, partial)
        user == IF u.given THEN u.value ELSE rows[instance].user
        following == IF f.given THEN f.value ELSE rows[instance].following
    IN  IF u.error \/ f.error
        THEN [valid |-> FALSE, user |-> AnonymousUser, following |-> AnonymousUser]
        ELSE IF UniqueTogetherValidator(rows, instance, user, following)
             THEN [valid |-> FALSE, user |-> AnonymousUser, following |-> AnonymousUser]
             ELSE [valid |-> TRUE, user |-> user, following |-> following]

\* FollowSerializer.to_representation
FollowRepr(rows, e) ==
    [id |-> e, user |-> UserToSlug(rows[e].user),
     following |-> UserToSlug(rows[e].following)]

----------------------------------------------------------------------------
(* FollowViewSet *)

\* permission_classes = (permissions.IsAuthenticated,)
FollowPermission(actor) == is_authenticated(actor)

\* A get_queryset that returns Follow.objects.all()
FollowGetQuerysetAll(rows, actor) == DOMAIN rows

\* FollowViewSet.get_queryset
FollowGetQueryset(rows, actor) == followers(rows, actor)

Lower(c) == IF c = "A" THEN "a" ELSE IF c = "B" THEN "b" ELSE c

\* icontains: case-insensitive substring
IContains(s, term) ==
    \E k \in 0..(Len(s) - Len(term)) :
        \A j \in 1..Len(term) : Lower(s[k + j]) = Lower(term[j])

\* The values of the `search` query parameter; <<>> is no parameter
SearchTerms == {<<>>, <<"a">>, <<"B">>, <<"a", "a">>}

\* filters.SearchFilter with search_fields = ("following__username",)
SearchFilter(rows, qs, term) ==
    IF term = <<>> THEN qs
    ELSE {e \in qs : IContains(rows[e].following.username, term)}

\* FollowViewSet.perform_create: serializer.save(user=self.request.user)
PerformCreateUser(actor, validated) == actor

\* POST /follow/
FollowCreate(actor) ==
    /\ Ready
    /\ UNCHANGED <<contentVars, pending>>
    /\ IF ~FollowPermission(actor)
       THEN /\ last' = Request("follow_create", actor, 0, NoBody, "not_authenticated")
            /\ UNCHANGED followVars
       ELSE \E body \in FollowBodies :
            \E v \in {FollowIsValid(follows, 0, body, actor, FALSE)} :
            LET row == FollowRow(PerformCreateUser(actor, v), v.following)
            IN  IF ~v.valid
                THEN /\ last' = Request("follow_create", actor, 0, body, "validation_error")
                     /\ UNCHANGED followVars
                ELSE IF FollowIntegrityError(follows, 0, row)
                THEN /\ last' = Request("follow_create", actor, 0, body, "integrity_error")
                     /\ UNCHANGED followVars
                ELSE /\ nextFollowId <= MaxFollows
                     /\ follows' = [e \in FollowIds \cup {nextFollowId} |->
                                      IF e = nextFollowId THEN row ELSE follows[e]]
                     /\ nextFollowId' = nextFollowId + 1
                     /\ last' = Request("follow_create", actor, nextFollowId, body, "created")

\* PUT /follow/{pk}/ (partial = FALSE), PATCH /follow/{pk}/ (partial = TRUE).
\* A request stopped before its body is read is recorded without it.
FollowUpdate(actor, pk, partial) ==
    LET op == IF partial THEN "follow_partial_update" ELSE "follow_update"
        Response(status) == Request(op, actor, pk, NoBody, status)
        ResponseTo(body, status) == Request(op, actor, pk, body, status)
    IN
    /\ Ready
    /\ UNCHANGED <<contentVars, pending, nextFollowId>>
    /\ IF ~FollowPermission(actor)
       THEN /\ last' = Response("not_authenticated")
            /\ UNCHANGED follows
       ELSE IF pk \notin FollowGetQueryset(follows, actor)
       THEN /\ last' = Response("not_found")
            /\ UNCHANGED follows
       ELSE \E body \in FollowBodies :
            \E v \in {FollowIsValid(follows, pk, body, actor, partial)} :
            LET row == FollowRow(v.user, v.following)
            IN  IF ~v.valid
                THEN /\ last' = ResponseTo(body, "validation_error")
                     /\ UNCHANGED follows
                ELSE IF FollowIntegrityError(follows, pk, row)
                THEN /\ last' = ResponseTo(body, "integrity_error")
                     /\ UNCHANGED follows
                ELSE /\ follows' = [follows EXCEPT ![pk] = row]
                     /\ last' = ResponseTo(body, "ok")

\* DELETE /follow/{pk}/
FollowDestroy(actor, pk) ==
    /\ Ready
    /\ UNCHANGED <<contentVars, pending, nextFollowId>>
    /\ IF ~FollowPermission(actor)
       THEN /\ last' = Request("follow_destroy", actor, pk, NoBody, "not_authenticated")
            /\ UNCHANGED follows
       ELSE IF pk \notin FollowGetQueryset(follows, actor)
       THEN /\ last' = Request("follow_destroy", actor, pk, NoBody, "not_found")
            /\ UNCHANGED follows
       ELSE /\ follows' = [e \in FollowIds \ {pk} |-> follows[e]]
            /\ last' = Request("follow_destroy", actor, pk, NoBody, "no_content")

\* GET /follow/?search=term
FollowList(actor, term) ==
    /\ Ready
    /\ UNCHANGED <<followVars, contentVars, pending>>
    /\ IF ~FollowPermission(actor)
       THEN last' = [Request("follow_list", actor, 0, NoBody, "not_authenticated")
                        EXCEPT !.search = term]
       ELSE last' = [Request("follow_list", actor, 0, NoBody, "ok")
                        EXCEPT !.search = term,
                               !.data = {FollowRepr(follows, e) :
                                    e \in SearchFilter(follows,
                                            FollowGetQueryset(follows, actor), term)}]

----------------------------------------------------------------------------
(* Specification of the Follow endpoints, one request at a time *)

Idle == <<>>

\* Two request workers
Workers == {"w1", "w2"}

Init ==
    /\ follows = <<>>
    /\ nextFollowId = 1
    /\ posts = <<>>
    /\ nextPostId = 1
    /\ comments = <<>>
    /\ nextCommentId = 1
    /\ pending = [w \in Workers |-> Idle]
    /\ last = NoRequest

\* The response leaves the server; the next request is dispatched after it
Respond ==
    /\ ~Ready
    /\ last' = NoRequest
    /\ UNCHANGED <<followVars, contentVars, pending>>

Next ==
    \/ Respond
    \/ \E actor \in Actors : FollowCreate(actor)
    \/ \E actor \in Actors, pk \in 1..MaxFollows : FollowUpdate(actor, pk, FALSE)
    \/ \E actor \in Actors, pk \in 1..MaxFollows : FollowUpdate(actor, pk, TRUE)
    \/ \E actor \in Actors, pk \in 1..MaxFollows : FollowDestroy(actor, pk)
    \/ \E actor \in Actors, term \in SearchTerms : FollowList(actor, term)

Spec == Init /\ [][Next]_vars

----------------------------------------------------------------------------
(* Follow creation by two workers: is_valid and perform_create of one       *)
(* request are separate steps, and the other worker may run between them.  *)

\* POST /follow/ up to the end of serializer.is_valid(): the worker keeps
\* the row that perform_create will save
FollowCreateValidate(w, actor) ==
    /\ Ready
    /\ pending[w] = Idle
    /\ UNCHANGED <<contentVars, followVars>>
    /\ IF ~FollowPermission(actor)
       THEN /\ last' = Request("follow_create", actor, 0, NoBody, "not_authenticated")
            /\ UNCHANGED pending
       ELSE \E body \in FollowBodies :
            \E v \in {FollowIsValid(follows, 0, body, actor, FALSE)} :
            LET row == FollowRow(PerformCreateUser(actor, v), v.following)
            IN  IF ~v.valid
                THEN /\ last' = Request("follow_create", actor, 0, body, "validation_error")
                     /\ UNCHANGED pending
                ELSE /\ pending' = [pending EXCEPT ![w] = <<row>>]
                     /\ last' = Request("follow_create", actor, 0, body, "valid")

\* perform_create of the request the worker validated: the INSERT
FollowCreateSave(w) ==
    /\ Ready
    /\ pending[w] # Idle
    /\ UNCHANGED contentVars
    /\ pending' = [pending EXCEPT ![w] = Idle]
    /\ LET row == pending[w][1]
       IN  IF FollowIntegrityError(follows, 0, row)
           THEN /\ last' = Request("follow_create", row.user, 0, NoBody, "integrity_error")
                /\ UNCHANGED followVars
           ELSE /\ nextFollowId <= MaxFollows
                /\ follows' = [e \in FollowIds \cup {nextFollowId} |->
                                 IF e = nextFollowId THEN row ELSE follows[e]]
                /\ nextFollowId' = nextFollowId + 1
                /\ last' = Request("follow_create", row.user, nextFollowId, NoBody, "created")

NextConcurrent ==
    \/ Respond
    \/ \E w \in Workers, actor \in Actors : FollowCreateValidate(w, actor)
    \/ \E w \in Workers : FollowCreateSave(w)

SpecConcurrent == Init /\ [][NextConcurrent]_vars

----------------------------------------------------------------------------
(* Post and Comment models and serializers *)

Texts == {"t1", "t2"}

PostRow(author, text) == [author |-> author, text |-> text]

CommentRow(author, post, text) == [author |-> author, post |-> post, text |-> text]

\* The JSON objects a Post request may carry: `text`, and an `author`
PostBodies ==
    {NoBody}
    \cup {[text |-> t] : t \in Texts}
    \cup {[author |-> a] : a \in Usernames}
    \cup {[text |-> t, author |-> a] : t \in Texts, a \in Usernames}

\* The JSON objects a Comment request may carry: `text`, and a `post` id
CommentBodies ==
    {NoBody}
    \cup {[text |-> t] : t \in Texts}
    \cup {[post |-> p] : p \in 1..MaxPosts}
    \cup {[text |-> t, post |-> p] : t \in Texts, p \in 1..MaxPosts}

\* The model field `text` of Post and of Comment: required unless the
\* update is partial.  [valid, given, value]
TextField(data, partial) ==
    IF "text" \in DOMAIN data
    THEN [valid |-> TRUE, given |-> TRUE, value |-> data["text"]]
    ELSE [valid |-> partial, given |-> FALSE, value |-> ""]

\* An author field without read_only
PostSerializerAuthorWritable(data, author) ==
    IF "author" \in DOMAIN data /\ SlugToUsers(data["author"]) # {}
    THEN SlugToUser(data["author"])
    ELSE author

\* PostSerializer.author = SlugRelatedField(read_only=True): the author that
\* serializer.save() writes, `author` being the instance's author
PostSerializerAuthor(data, author) == author

\* A serializer without read_only_fields
CommentSerializerPostWritable(data, post) ==
    IF "post" \in DOMAIN data /\ data["post"] \in DOMAIN posts
    THEN data["post"]
    ELSE post

\* CommentSerializer.Meta.read_only_fields = ('post',): the post that
\* serializer.save() writes, `post` being the instance's post
CommentSerializerPost(data, post) == post

\* permissions.IsAuthenticatedOrReadOnly.has_permission
IsAuthenticatedOrReadOnly(actor, safe) == safe \/ is_authenticated(actor)

\* IsAuthorOrReadOnly.has_object_permission
IsAuthorOrReadOnly(actor, safe, obj) == safe \/ obj.author = actor

\* Post.comments of a post that is deleted are deleted with it
CascadeComments(rows, post) ==
    [c \in {x \in DOMAIN rows : rows[x].post # post} |-> rows[c]]

----------------------------------------------------------------------------
(* PostViewSet *)

\* permission_classes without IsAuthorOrReadOnly
PostObjectPermissionAuthenticated(actor, obj) ==
    IsAuthenticatedOrReadOnly(actor, FALSE)

\* PostViewSet.permission_classes on an unsafe request for the object
PostObjectPermission(actor, obj) ==
    /\ IsAuthenticatedOrReadOnly(actor, FALSE)
    /\ IsAuthorOrReadOnly(actor, FALSE, obj)

\* PostViewSet.perform_create: serializer.save(author=self.request.user)
PostPerformCreateAuthor(actor, data) == actor

\* POST /posts/
PostCreate(actor) ==
    /\ Ready
    /\ UNCHANGED <<followVars, pending, comments, nextCommentId>>
    /\ IF ~IsAuthenticatedOrReadOnly(actor, FALSE)
       THEN /\ last' = Request("post_create", actor, 0, NoBody, "not_authenticated")
            /\ UNCHANGED <<posts, nextPostId>>
       ELSE \E body \in PostBodies :
            \E t \in {TextField(body, FALSE)} :
            IF ~t.valid
            THEN /\ last' = Request("post_create", actor, 0, body, "validation_error")
                 /\ UNCHANGED <<posts, nextPostId>>
            ELSE /\ nextPostId <= MaxPosts
                 /\ posts' = [p \in DOMAIN posts \cup {nextPostId} |->
                                IF p = nextPostId
                                THEN PostRow(PostPerformCreateAuthor(actor, body), t.value)
                                ELSE posts[p]]
                 /\ nextPostId' = nextPostId + 1
                 /\ last' = Request("post_create", actor, nextPostId, body, "created")

\* PUT /posts/{pk}/ (partial = FALSE), PATCH /posts/{pk}/ (partial = TRUE)
PostUpdate(actor, pk, partial) ==
    LET op == IF partial THEN "post_partial_update" ELSE "post_update"
        Response(status) == Request(op, actor, pk, NoBody, status)
        ResponseTo(body, status) == Request(op, actor, pk, body, status)
    IN
    /\ Ready
    /\ UNCHANGED <<followVars, pending, comments, nextCommentId, nextPostId>>
    /\ IF ~IsAuthenticatedOrReadOnly(actor, FALSE)
       THEN /\ last' = Response("not_authenticated")
            /\ UNCHANGED posts
       ELSE IF pk \notin DOMAIN posts
       THEN /\ last' = Response("not_found")
            /\ UNCHANGED posts
       ELSE IF ~PostObjectPermission(actor, posts[pk])
       THEN /\ last' = Response("forbidden")
            /\ UNCHANGED posts
       ELSE \E body \in PostBodies :
            \E t \in {TextField(body, partial)} :
            IF ~t.valid
            THEN /\ last' = ResponseTo(body, "validation_error")
                 /\ UNCHANGED posts
            ELSE /\ posts' = [posts EXCEPT ![pk] =
                        PostRow(PostSerializerAuthor(body, posts[pk].author),
                                IF t.given THEN t.value ELSE posts[pk].text)]
                 /\ last' = ResponseTo(body, "ok")

\* DELETE /posts/{pk}/
PostDestroy(actor, pk) ==
    LET Response(status) == Request("post_destroy", actor, pk, NoBody, status)
    IN
    /\ Ready
    /\ UNCHANGED <<followVars, pending, nextCommentId, nextPostId>>
    /\ IF ~IsAuthenticatedOrReadOnly(actor, FALSE)
       THEN /\ last' = Response("not_authenticated")
            /\ UNCHANGED <<posts, comments>>
       ELSE IF pk \notin DOMAIN posts
       THEN /\ last' = Response("not_found")
            /\ UNCHANGED <<posts, comments>>
       ELSE IF ~PostObjectPermission(actor, posts[pk])
       THEN /\ last' = Response("forbidden")
            /\ UNCHANGED <<posts, comments>>
       ELSE /\ posts' = [p \in DOMAIN posts \ {pk} |-> posts[p]]
            /\ comments' = CascadeComments(comments, pk)
            /\ last' = Response("no_content")

----------------------------------------------------------------------------
(* CommentViewSet *)

\* CommentViewSet.permission_classes on an unsafe request for the object
CommentObjectPermission(actor, obj) ==
    /\ IsAuthenticatedOrReadOnly(actor, FALSE)
    /\ IsAuthorOrReadOnly(actor, FALSE, obj)

\* get_object_or_404(Post, id=post_id): whether the post is found
PostFound(rows, post_id) == post_id \in DOMAIN rows

\* CommentViewSet.get_queryset: post.comments.all() of a post that is found
CommentGetQueryset(rows, post_id) ==
    {c \in DOMAIN rows : rows[c].post = post_id}

\* A perform_create that does not look the post up
CommentPerformCreatePostFoundAlways(rows, post_id) == TRUE

\* CommentViewSet.perform_create: get_object_or_404(Post, id=post_id)
CommentPerformCreatePostFound(rows, post_id) == PostFound(rows, post_id)

\* POST /posts/{post_id}/comments/
CommentCreate(actor, post_id) ==
    LET Response(body, pk, status) ==
            NestedRequest("comment_create", actor, post_id, pk, body, status)
    IN
    /\ Ready
    /\ UNCHANGED <<followVars, pending, posts, nextPostId>>
    /\ IF ~IsAuthenticatedOrReadOnly(actor, FALSE)
       THEN /\ last' = Response(NoBody, 0, "not_authenticated")
            /\ UNCHANGED <<comments, nextCommentId>>
       ELSE \E body \in CommentBodies :
            \E t \in {TextField(body, FALSE)} :
            IF ~t.valid
            THEN /\ last' = Response(body, 0, "validation_error")
                 /\ UNCHANGED <<comments, nextCommentId>>
            ELSE IF ~CommentPerformCreatePostFound(posts, post_id)
            THEN /\ last' = Response(body, 0, "not_found")
                 /\ UNCHANGED <<comments, nextCommentId>>
            ELSE /\ nextCommentId <= MaxComments
                 /\ comments' = [c \in DOMAIN comments \cup {nextCommentId} |->
                                   IF c = nextCommentId
                                   THEN CommentRow(actor, post_id, t.value)
                                   ELSE comments[c]]
                 /\ nextCommentId' = nextCommentId + 1
                 /\ last' = Response(body, nextCommentId, "created")

\* PUT and PATCH /posts/{post_id}/comments/{pk}/
CommentUpdate(actor, post_id, pk, partial) ==
    LET op == IF partial THEN "comment_partial_update" ELSE "comment_update"
        Response(status) == NestedRequest(op, actor, post_id, pk, NoBody, status)
        ResponseTo(body, status) == NestedRequest(op, actor, post_id, pk, body, status)
    IN
    /\ Ready
    /\ UNCHANGED <<followVars, pending, posts, nextPostId, nextCommentId>>
    /\ IF ~IsAuthenticatedOrReadOnly(actor, FALSE)
       THEN /\ last' = Response("not_authenticated")
            /\ UNCHANGED comments
       ELSE IF ~PostFound(posts, post_id)
       THEN /\ last' = Response("not_found")
            /\ UNCHANGED comments
       ELSE IF pk \notin CommentGetQueryset(comments, post_id)
       THEN /\ last' = Response("not_found")
            /\ UNCHANGED comments
       ELSE IF ~CommentObjectPermission(actor, comments[pk])
       THEN /\ last' = Response("forbidden")
            /\ UNCHANGED comments
       ELSE \E body \in CommentBodies :
            \E t \in {TextField(body, partial)} :
            IF ~t.valid
            THEN /\ last' = ResponseTo(body, "validation_error")
                 /\ UNCHANGED comments
            ELSE /\ comments' = [comments EXCEPT ![pk] =
                        CommentRow(comments[pk].author,
                                   CommentSerializerPost(body, comments[pk].post),
                                   IF t.given THEN t.value ELSE comments[pk].text)]
                 /\ last' = ResponseTo(body, "ok")

\* DELETE /posts/{post_id}/comments/{pk}/
CommentDestroy(actor, post_id, pk) ==
    LET Response(status) ==
            NestedRequest("comment_destroy", actor, post_id, pk, NoBody, status)
    IN
    /\ Ready
    /\ UNCHANGED <<followVars, pending, posts, nextPostId, nextCommentId>>
    /\ IF ~IsAuthenticatedOrReadOnly(actor, FALSE)
       THEN /\ last' = Response("not_authenticated")
            /\ UNCHANGED comments
       ELSE IF ~PostFound(posts, post_id)
       THEN /\ last' = Response("not_found")
            /\ UNCHANGED comments
       ELSE IF pk \notin CommentGetQueryset(comments, post_id)
       THEN /\ last' = Response("not_found")
            /\ UNCHANGED comments
       ELSE IF ~CommentObjectPermission(actor, comments[pk])
       THEN /\ last' = Response("forbidden")
            /\ UNCHANGED comments
       ELSE /\ comments' = [c \in DOMAIN comments \ {pk} |-> comments[c]]
            /\ last' = Response("no_content")

\* The callers of the Post and Comment endpoints: two of the registered
\* users, and a caller without credentials
ContentActors == {User(1), User(2), AnonymousUser}

NextContent ==
    \/ Respond
    \/ \E actor \in ContentActors : PostCreate(actor)
    \/ \E actor \in ContentActors, pk \in 1..MaxPosts : PostUpdate(actor, pk, FALSE)
    \/ \E actor \in ContentActors, pk \in 1..MaxPosts : PostUpdate(actor, pk, TRUE)
    \/ \E actor \in ContentActors, pk \in 1..MaxPosts : PostDestroy(actor, pk)
    \/ \E actor \in ContentActors, post_id \in 1..MaxPosts : CommentCreate(actor, post_id)
    \/ \E actor \in ContentActors, post_id \in 1..MaxPosts, pk \in 1..MaxComments :
            CommentUpdate(actor, post_id, pk, FALSE)
    \/ \E actor \in ContentActors, post_id \in 1..MaxPosts, pk \in 1..MaxComments :
            CommentUpdate(actor, post_id, pk, TRUE)
    \/ \E actor \in ContentActors, post_id \in 1..MaxPosts, pk \in 1..MaxComments :
            CommentDestroy(actor, post_id, pk)

SpecContent == Init /\ [][NextContent]_vars

----------------------------------------------------------------------------
(* Claims about the Follow endpoints *)

\* The Follow rows stored for the pair (user, following)
Edges(user, following) ==
    {e \in DOMAIN follows : follows[e] = FollowRow(user, following)}

\* C1: in every reachable state no stored Follow row has its user equal to
\* its following.
C1_NoSelfFollow ==
    \A e \in DOMAIN follows : follows[e].user # follows[e].following

\* C2: in every reachable state no two stored Follow rows have the same
\* (user, following) pair.
C2_PairUnique ==
    \A e1, e2 \in DOMAIN follows :
        e1 # e2 => follows[e1] # follows[e2]

\* C2 witness: two rows are stored and the last request, an attempt to
\* store one of the pairs again, was stopped.
C2_Witness ==
    /\ Cardinality(DOMAIN follows) >= 2
    /\ last.op \in {"follow_create", "follow_update", "follow_partial_update"}
    /\ last.status = "integrity_error"

\* C3: a create request by U that names F while the row (U, F) is stored is
\* answered with a validation error and leaves the Follow table as it was,
\* whatever else the body holds.
C3_DuplicateCreateIsValidationError ==
    [][(/\ last'.op = "follow_create"
        /\ last'.actor \in Users
        /\ "following" \in DOMAIN last'.body
        /\ \E f \in SlugToUsers(last'.body["following"]) :
                Edges(last'.actor, f) # {})
       => (last'.status = "validation_error" /\ follows' = follows)]_vars

\* C4: a create request by U whose `following` is U's own username is
\* answered with a validation error and stores no row.
C4_SelfFollowCreateRejected ==
    [][(/\ last'.op = "follow_create"
        /\ last'.actor \in Users
        /\ "following" \in DOMAIN last'.body
        /\ last'.body["following"] = UserToSlug(last'.actor))
       => (/\ last'.status = "validation_error"
           /\ follows' = follows
           /\ nextFollowId' = nextFollowId)]_vars

\* C4 witness: such a request, with another user named as `user`, was
\* answered with a validation error.
C4_Witness ==
    /\ last.op = "follow_create"
    /\ last.actor \in Users
    /\ DOMAIN last.body = {"user", "following"}
    /\ last.body["following"] = UserToSlug(last.actor)
    /\ last.body["user"] # UserToSlug(last.actor)
    /\ last.status = "validation_error"

\* C7: a list request by U returns only rows whose user is U, and without a
\* search parameter all of them.
C7_ListOnlyOwnEdges ==
    (last.op = "follow_list" /\ last.status = "ok") =>
        /\ \A d \in last.data :
                /\ d.id \in DOMAIN follows
                /\ d = FollowRepr(follows, d.id)
                /\ follows[d.id].user = last.actor
        /\ last.search = <<>> =>
                last.data = {FollowRepr(follows, e) :
                                e \in {x \in DOMAIN follows : follows[x].user = last.actor}}

\* C7 witness: a list with a search parameter returned a row of the caller
\* while a row of another user that matches the search is stored.
C7_Witness ==
    /\ last.op = "follow_list"
    /\ last.status = "ok"
    /\ last.search # <<>>
    /\ last.data # {}
    /\ \E e \in DOMAIN follows :
            /\ follows[e].user # last.actor
            /\ IContains(follows[e].following.username, last.search)

\* C9: when two create requests are validated and saved in any interleaving,
\* at most one row per (user, following) pair is stored.
C9_AtMostOneEdgePerPair ==
    \A u \in Users, f \in Users : Cardinality(Edges(u, f)) <= 1

\* C9 witness: both workers hold the same validated row, one has saved it
\* and the save of the other is still to come.
C9_Witness ==
    \E w1, w2 \in Workers :
        /\ w1 # w2
        /\ pending[w1] = Idle
        /\ pending[w2] # Idle
        /\ Edges(pending[w2][1].user, pending[w2][1].following) # {}
        /\ last.status = "created"
        /\ last.pk \in Edges(pending[w2][1].user, pending[w2][1].following)

----------------------------------------------------------------------------
(* Claims about the Post and Comment endpoints *)

PostWriteOps == {"post_update", "post_partial_update", "post_destroy"}

CommentWriteOps == {"comment_update", "comment_partial_update", "comment_destroy"}

\* C5: an update, partial update or delete of a stored Post or Comment by an
\* authenticated user who is not its author is answered with a forbidden
\* error and changes nothing.  A comment is addressed under its own post;
\* under another post id the answer is not-found, and nothing changes either.
C5_NonAuthorWriteForbidden ==
    [][/\ (/\ last'.op \in PostWriteOps
           /\ last'.actor \in Users
           /\ last'.pk \in DOMAIN posts
           /\ posts[last'.pk].author # last'.actor)
          => (/\ last'.status = "forbidden"
              /\ posts' = posts
              /\ comments' = comments)
       /\ (/\ last'.op \in CommentWriteOps
           /\ last'.actor \in Users
           /\ last'.pk \in DOMAIN comments
           /\ comments[last'.pk].author # last'.actor)
          => (/\ comments[last'.pk].post = last'.post_id
                    => last'.status = "forbidden"
              /\ comments[last'.pk].post # last'.post_id
                    => last'.status = "not_found"
              /\ comments' = comments
              /\ posts' = posts)]_vars

\* C5 witness: a PUT on a stored comment, under its own post, by a user who
\* is not its author was answered with a forbidden error.
C5_Witness ==
    /\ last.op = "comment_update"
    /\ last.actor \in Users
    /\ last.pk \in DOMAIN comments
    /\ comments[last.pk].post = last.post_id
    /\ comments[last.pk].author # last.actor
    /\ last.status = "forbidden"

\* C6: a post created by U has author U whatever `author` the body holds,
\* and no request changes the author of a stored post.
C6_PostAuthorIsCreator ==
    [][/\ (last'.op = "post_create" /\ last'.status = "created")
          => (/\ last'.pk \notin DOMAIN posts
              /\ last'.pk \in DOMAIN posts'
              /\ posts'[last'.pk].author = last'.actor)
       /\ \A p \in DOMAIN posts \cap DOMAIN posts' :
            posts'[p].author = posts[p].author]_vars

\* C6 witness: a PATCH whose body names another user as `author` succeeded
\* and the post still has the author it was created with.
C6_Witness ==
    /\ last.op = "post_partial_update"
    /\ last.status = "ok"
    /\ "author" \in DOMAIN last.body
    /\ last.body["author"] # UserToSlug(last.actor)
    /\ posts[last.pk].author = last.actor

\* C8 as claimed: a comment create by an authenticated caller under a post id
\* that matches no stored post is answered with a not-found error and stores
\* no comment.
C8_MissingPostIsNotFound ==
    [][(/\ last'.op = "comment_create"
        /\ last'.actor \in Users
        /\ last'.post_id \notin DOMAIN posts)
       => (last'.status = "not_found" /\ comments' = comments)]_vars

\* C8 as amended: such a request stores no comment; it is answered with a
\* not-found error when its body is valid (holds a text), and with a
\* validation error otherwise.
C8_MissingPostStoresNothing ==
    [][(/\ last'.op = "comment_create"
        /\ last'.actor \in Users
        /\ last'.post_id \notin DOMAIN posts)
       => (/\ comments' = comments
           /\ nextCommentId' = nextCommentId
           /\ "text" \in DOMAIN last'.body => last'.status = "not_found"
           /\ "text" \notin DOMAIN last'.body => last'.status = "validation_error")]_vars

\* C8 witness: a valid comment create under the id of a post that was
\* deleted was answered with a not-found error.
C8_Witness ==
    /\ last.op = "comment_create"
    /\ last.actor \in Users
    /\ last.post_id \notin DOMAIN posts
    /\ last.post_id < nextPostId
    /\ "text" \in DOMAIN last.body
    /\ last.status = "not_found"

\* C10: a created comment belongs to the post of the path whatever `post`
\* the body holds, and no request changes the post of a stored comment.
C10_CommentPostFixed ==
    [][/\ (last'.op = "comment_create" /\ last'.status = "created")
          => (/\ last'.pk \notin DOMAIN comments
              /\ last'.pk \in DOMAIN comments'
              /\ comments'[last'.pk].post = last'.post_id)
       /\ \A c \in DOMAIN comments \cap DOMAIN comments' :
            comments'[c].post = comments[c].post]_vars

\* C10 witness: an update whose body names another stored post succeeded and
\* the comment is still under the post of its path.
C10_Witness ==
    /\ last.op \in {"comment_update", "comment_partial_update"}
    /\ last.status = "ok"
    /\ "post" \in DOMAIN last.body
    /\ last.body["post"] \in DOMAIN posts
    /\ last.body["post"] # last.post_id
    /\ comments[last.pk].post = last.post_id

====
